---- MODULE Spec2Model ----
(***************************************************************************)
(* Portfolio & CMS backend (src/server.js): the role gate, the login       *)
(* route, the user-management routes, the generic CRUD controller over the *)
(* four content collections and the singleton documents, as one state      *)
(* machine over the persisted collections, the tokens handed out and the   *)
(* last response sent.                                                     *)
(*                                                                         *)
(* Request bodies carry optional fields: a field is the empty sequence     *)
(* when the body does not carry it and <<v>> when it carries the value v.  *)
(* Time is counted in hours.                                               *)
(***************************************************************************)
EXTENDS Integers, Sequences, FiniteSets, TLC

VARIABLES
    now,         \* the wall clock, in hours since the process started
    users,       \* the User collection: a set of documents
    content,     \* the four content collections: resource -> set of documents
    singletons,  \* the PersonalInfo and Skills collections: resource -> set of documents
    tokens,      \* the tokens logins have handed out that clients still hold
    nextId,      \* the next identifier the store generates
    pending,     \* requests suspended between two store calls
    resp         \* the last exchange: the request's route and token, the response sent

vars == <<now, users, content, singletons, tokens, nextId, pending, resp>>

----------------------------------------------------------------------------
(* Bounds of the model. *)

MaxId == 1          \* identifiers the store generates beyond the initial documents
MaxTime == 12       \* the clock stops here
MaxPending == 2     \* requests suspended between two store calls
MaxTokens == 1      \* tokens the clients keep to present later
MaxDocs == 2        \* content documents created
MaxDocTime == 4     \* the clock stops here while content is edited

----------------------------------------------------------------------------
(* Values. *)

Absent == <<>>
Some(v) == <<v>>
Opt(S) == {Absent} \cup {Some(v) : v \in S}

\* JavaScript truthiness of a body field holding a string: present and not "".
Truthy(f) == f # Absent /\ f[1] # ""

Roles == {"Administrator", "Editor"}
Statuses == {"Active", "Inactive"}

SeedEmail == "munirdevs@gmail.com"
Emails == {SeedEmail, "MunirDevs@Gmail.com", "ed@x.io"}
Passwords == {"admin", "pw2"}
Names == {"Munir Ahmad"}

\* The schema's `lowercase: true` and `trim: true` setters on email.
Lowercase(s) == IF s = "MunirDevs@Gmail.com" THEN SeedEmail ELSE s

\* An id that is no ObjectId (the store's cast of it fails).
BadId == 0
Ids == 1..(MaxId + 1)

----------------------------------------------------------------------------
(* Credential service. *)

\* bcrypt.genSalt: a salt carried by no stored hash (a 128-bit random value).
GenSalt == CHOOSE s \in 0..(MaxId + 3) :
              /\ \A u \in users : u.passwordHash.salt # s
              /\ \A t \in 0..(MaxId + 3) :
                    (\A u \in users : u.passwordHash.salt # t) => s <= t

BcryptHash(password, salt) == [salt |-> salt, pw |-> password]

hashPassword(password) == BcryptHash(password, GenSalt)

\* A compare that accepts any password.
verifyPasswordAny(providedPassword, storedHash) == TRUE

\* bcrypt.compare: hash the provided password under the stored hash's salt.
verifyPassword(providedPassword, storedHash) ==
    BcryptHash(providedPassword, storedHash.salt) = storedHash

EightHours == 8

NoToken == [kind |-> "none"]
Garbage == [kind |-> "garbage"]

\* jwt.sign(payload, secret, { expiresIn: '8h' })
jwtSign(payload, secret) ==
    [kind |-> "jwt", id |-> payload.id, name |-> payload.name, role |-> payload.role,
     iat |-> now, exp |-> now + EightHours, key |-> secret]

JWT_SECRET == "server-secret"

\* A verify that never looks at the expiry.
jwtVerifyIgnoreExpiration(token, secret) ==
    /\ token.kind = "jwt"
    /\ token.key = secret

\* jwt.verify: well formed, signed with the secret, not expired.
jwtVerify(token, secret) ==
    /\ token.kind = "jwt"
    /\ token.key = secret
    /\ now < token.exp

\* A token signed with another key, carrying Administrator claims.
Forged == [kind |-> "jwt", id |-> 1, name |-> "Munir Ahmad", role |-> "Administrator",
           iat |-> 0, exp |-> MaxTime + EightHours, key |-> "other-secret"]

\* What a client can put in the Authorization header.
Presentable == tokens \cup {NoToken, Garbage, Forged}

----------------------------------------------------------------------------
(* Responses. *)

\* An exchange: the route and the bearer token of the request, the status and
\* the body of the response, and the code that sent it.
Message(route, token, status, by, text) ==
    [route |-> route, token |-> token, status |-> status, by |-> by,
     body |-> [kind |-> "message", message |-> text]]

Reply(route, token, status, by, body) ==
    [route |-> route, token |-> token, status |-> status, by |-> by, body |-> body]

NoResponse == Message("none", NoToken, 0, "none", "")

----------------------------------------------------------------------------
(* Authorization gate. *)

\* A gate that reads the role from the stored user instead of the token.
authMiddlewareStoredRole(requiredRole, token) ==
    IF token = NoToken THEN "401"
    ELSE IF ~jwtVerify(token, JWT_SECRET) THEN "400"
    ELSE IF requiredRole = "Administrator"
            /\ \A u \in users : u.id = token.id => u.role # "Administrator" THEN "403"
    ELSE "next"

\* The gate's outcome for a token: "next" or the status it answers with.
authMiddleware(requiredRole, token) ==
    IF token = NoToken THEN "401"
    ELSE IF ~jwtVerify(token, JWT_SECRET) THEN "400"
    ELSE IF requiredRole = "Administrator" /\ token.role # "Administrator" THEN "403"
    ELSE "next"

GateMessage(route, token, outcome) ==
    CASE outcome = "401" ->
            Message(route, token, 401, "authMiddleware", "Access denied. No token provided.")
      [] outcome = "400" ->
            Message(route, token, 400, "authMiddleware", "Invalid token.")
      [] outcome = "403" ->
            Message(route, token, 403, "authMiddleware", "Forbidden: Administrator access required.")

\* A request the gate turns away: answered by the gate, nothing else happens.
Rejected(route, requiredRole, token) ==
    /\ authMiddleware(requiredRole, token) # "next"
    /\ resp' = GateMessage(route, token, authMiddleware(requiredRole, token))
    /\ UNCHANGED <<now, users, content, singletons, tokens, nextId, pending>>

Passes(requiredRole, token) == authMiddleware(requiredRole, token) = "next"


----------------------------------------------------------------------------
(* User collection (userSchema). *)

NewUser(id, name, email, passwordHash, role, status) ==
    [id |-> id, name |-> name, email |-> Lowercase(email),
     passwordHash |-> passwordHash, role |-> role, status |-> status]

\* User.findOne({ email }): the query value is cast by the schema's setters.
UserFindOneByEmail(email) == {u \in users : u.email = Lowercase(email)}

UserFindById(id) == {u \in users : u.id = id}

\* A schema without `unique: true` on email.
EmailIndexAbsent(id, email) == FALSE

\* The unique index on email: would storing `email` on document `id` collide?
EmailIndexCollides(id, email) ==
    \E u \in users : u.id # id /\ u.email = email

\* .select('-passwordHash') and the hand-built 201 body: a user without the hash.
WithoutHash(u) ==
    [id |-> u.id, name |-> u.name, email |-> u.email, role |-> u.role, status |-> u.status]

SeedAdmin ==
    [id |-> 1, name |-> "Munir Ahmad", email |-> SeedEmail,
     passwordHash |-> BcryptHash("admin", 0), role |-> "Administrator", status |-> "Active"]

----------------------------------------------------------------------------
(* POST /api/auth/login *)

LoginResponse(email, password) ==
    LET found == UserFindOneByEmail(email)
        user == CHOOSE u \in found : TRUE
    IN  IF found = {} \/ user.status # "Active"
        THEN Message("POST /auth/login", NoToken, 401, "login", "Invalid credentials or inactive user.")
        ELSE IF password = Absent
        THEN Message("POST /auth/login", NoToken, 500, "login", "Server error")
        ELSE IF ~verifyPassword(password[1], user.passwordHash)
        THEN Message("POST /auth/login", NoToken, 401, "login", "Invalid credentials.")
        ELSE Reply("POST /auth/login", NoToken, 200, "login",
                   [kind |-> "login",
                    token |-> jwtSign([id |-> user.id, name |-> user.name, role |-> user.role],
                                      JWT_SECRET),
                    name |-> user.name, role |-> user.role])

Login(email, password) ==
    /\ resp' = LoginResponse(email, password)
    /\ tokens' = IF resp'.status = 200 /\ Cardinality(tokens) < MaxTokens
                 THEN tokens \cup {resp'.body.token} ELSE tokens
    /\ UNCHANGED <<now, users, content, singletons, nextId, pending>>

----------------------------------------------------------------------------
(* /api/users *)

\* The role each /api/users route configures the gate with.
UserRoutes == {"GET /users", "POST /users", "PUT /users/:id", "DELETE /users/:id"}

\* A /api/users request the gate answers itself.
UsersRejected(route, token) == Rejected(route, "Administrator", token)

\* GET /api/users -> userController.getAllAdmin: Model.find({}) sent as it is.
UsersGetAll(token) ==
    /\ Passes("Administrator", token)
    /\ resp' = Reply("GET /users", token, 200, "getAllAdmin", [kind |-> "list", items |-> users])
    /\ UNCHANGED <<now, users, content, singletons, tokens, nextId, pending>>

UserPostBodies ==
    [name : Opt(Names), email : {Some(e) : e \in Emails}, password : {Some("pw2")},
     role : {Some("Editor")}, status : {Some("Active")}]

\* POST /api/users up to `await User.findOne({ email })`.
UsersPostFind(token, body) ==
    /\ Passes("Administrator", token)
    /\ IF ~(Truthy(body.name) /\ Truthy(body.email) /\ Truthy(body.password)
            /\ Truthy(body.role) /\ Truthy(body.status))
       THEN /\ resp' = Message("POST /users", token, 400, "users.post", "All fields are required")
            /\ UNCHANGED pending
       ELSE IF UserFindOneByEmail(body.email[1]) # {}
       THEN /\ resp' = Message("POST /users", token, 400, "users.post", "Email already exists")
            /\ UNCHANGED pending
       ELSE /\ Cardinality(pending) < MaxPending
            /\ pending' = pending \cup {[route |-> "POST /users", token |-> token, body |-> body]}
            /\ UNCHANGED resp
    /\ UNCHANGED <<now, users, content, singletons, tokens, nextId>>

\* POST /api/users from hashPassword to the response: newUser.save() runs the
\* setters and meets the unique index on email.
UsersPostSave(req) ==
    /\ req \in pending
    /\ req.route = "POST /users"
    /\ pending' = pending \ {req}
    /\ LET b == req.body
           newUser == NewUser(nextId, b.name[1], b.email[1], hashPassword(b.password[1]),
                              b.role[1], b.status[1])
       IN  IF EmailIndexCollides(newUser.id, newUser.email)
           THEN /\ resp' = Message("POST /users", req.token, 400, "users.post", "E11000 duplicate key error")
                /\ UNCHANGED <<users, nextId>>
           ELSE /\ nextId <= MaxId + 1
                /\ users' = users \cup {newUser}
                /\ nextId' = nextId + 1
                /\ resp' = Reply("POST /users", req.token, 201, "users.post",
                                 [kind |-> "doc",
                                  doc |-> [id |-> newUser.id, name |-> b.name[1],
                                           email |-> b.email[1], role |-> b.role[1],
                                           status |-> b.status[1]]])
    /\ UNCHANGED <<now, content, singletons, tokens>>

UserPutBody(email, role, status, password) ==
    [name |-> Absent, email |-> email, role |-> role, status |-> status, password |-> password]

\* Bodies of PUT /api/users/:id that move a user's email or role (the empty
\* body among them).
UserPutBodies ==
    {UserPutBody(e, Absent, Absent, Absent) : e \in Opt(Emails)}
    \cup {UserPutBody(Absent, Some(r), Absent, Absent) : r \in Roles}

\* Bodies of PUT /api/users/:id that move a user's status or password, the
\* password alone or next to the seeded administrator's email.
CredPutBodies ==
    {UserPutBody(Absent, Absent, Some(st), Absent) : st \in Statuses}
    \cup {UserPutBody(e, Absent, Absent, p) :
             e \in Opt({SeedEmail}), p \in Opt(Passwords \cup {""})}

\* An update that hashes whatever password field the body carries, "" included.
UpdateDataAlwaysHash(u, body) ==
    [id |-> u.id,
     name |-> IF Truthy(body.name) THEN body.name[1] ELSE u.name,
     email |-> IF Truthy(body.email) THEN Lowercase(body.email[1]) ELSE u.email,
     role |-> IF Truthy(body.role) THEN body.role[1] ELSE u.role,
     status |-> IF Truthy(body.status) THEN body.status[1] ELSE u.status,
     passwordHash |-> IF body.password # Absent
                      THEN BcryptHash(body.password[1], GenSalt) ELSE u.passwordHash]

\* The document PUT /api/users/:id asks the store for: updateData laid over u.
UpdateData(u, body) ==
    [id |-> u.id,
     name |-> IF Truthy(body.name) THEN body.name[1] ELSE u.name,
     email |-> IF Truthy(body.email) THEN Lowercase(body.email[1]) ELSE u.email,
     role |-> IF Truthy(body.role) THEN body.role[1] ELSE u.role,
     status |-> IF Truthy(body.status) THEN body.status[1] ELSE u.status,
     passwordHash |-> IF body.password # Absent /\ Len(body.password[1]) > 0
                      THEN hashPassword(body.password[1]) ELSE u.passwordHash]

\* PUT /api/users/:id
UsersPut(token, id, body) ==
    /\ Passes("Administrator", token)
    /\ LET found == UserFindById(id)
           u == CHOOSE x \in found : TRUE
           updatedUser == UpdateData(u, body)
       IN  IF id = BadId
           THEN /\ resp' = Message("PUT /users/:id", token, 400, "users.put", "Cast to ObjectId failed")
                /\ UNCHANGED users
           ELSE IF found = {}
           THEN /\ resp' = Message("PUT /users/:id", token, 404, "users.put", "User not found")
                /\ UNCHANGED users
           ELSE IF EmailIndexCollides(id, updatedUser.email)
           THEN /\ resp' = Message("PUT /users/:id", token, 400, "users.put", "E11000 duplicate key error")
                /\ UNCHANGED users
           ELSE /\ users' = (users \ {u}) \cup {updatedUser}
                /\ resp' = Reply("PUT /users/:id", token, 200, "users.put",
                                 [kind |-> "doc", doc |-> WithoutHash(updatedUser)])
    /\ UNCHANGED <<now, content, singletons, tokens, nextId, pending>>

\* DELETE /api/users/:id -> userController.delete
UsersDelete(token, id) ==
    /\ Passes("Administrator", token)
    /\ LET found == UserFindById(id)
       IN  IF id = BadId
           THEN /\ resp' = Message("DELETE /users/:id", token, 500, "delete", "Cast to ObjectId failed")
                /\ UNCHANGED users
           ELSE IF found = {}
           THEN /\ resp' = Message("DELETE /users/:id", token, 404, "delete", "Item not found")
                /\ UNCHANGED users
           ELSE /\ users' = users \ found
                /\ resp' = Message("DELETE /users/:id", token, 200, "delete", "Item deleted successfully")
    /\ UNCHANGED <<now, content, singletons, tokens, nextId, pending>>

----------------------------------------------------------------------------
(* The user-management specifications: login and the /api/users routes     *)
(* over the seeded store, within one token lifetime.  SpecUsers runs every *)
(* route with the bodies that move emails and roles; SpecCreds runs login, *)
(* user creation and the updates that move statuses and passwords.         *)

InitUsers ==
    /\ now = 0
    /\ users = {SeedAdmin}
    /\ content = <<>>
    /\ singletons = <<>>
    /\ tokens = {}
    /\ nextId = 2
    /\ pending = {}
    /\ resp = NoResponse

NextUsers ==
    \/ \E e \in Emails, p \in Opt(Passwords) : Login(e, p)
    \/ \E r \in UserRoutes, t \in Presentable : UsersRejected(r, t)
    \/ \E t \in Presentable : UsersGetAll(t)
    \/ \E t \in Presentable, b \in UserPostBodies : UsersPostFind(t, b)
    \/ \E r \in pending : UsersPostSave(r)
    \/ \E t \in Presentable, i \in Ids \cup {BadId}, b \in UserPutBodies : UsersPut(t, i, b)
    \/ \E t \in Presentable, i \in Ids \cup {BadId} : UsersDelete(t, i)

SpecUsers == InitUsers /\ [][NextUsers]_vars

NextCreds ==
    \/ \E e \in Emails, p \in Opt(Passwords) : Login(e, p)
    \/ \E t \in Presentable, b \in UserPostBodies : UsersPostFind(t, b)
    \/ \E r \in pending : UsersPostSave(r)
    \/ \E t \in Presentable, i \in Ids \cup {BadId}, b \in CredPutBodies : UsersPut(t, i, b)

SpecCreds == InitUsers /\ [][NextCreds]_vars

----------------------------------------------------------------------------
(* Content collections (projectSchema, experienceSchema, expertiseSchema,   *)
(* engineeringLogSchema): a document carries the schema's required text, of *)
(* which `title` stands here, the published flag and the two timestamps.    *)

Resources == {"projects", "experience", "expertise", "logs"}

Titles == {"Portfolio", " API "}

\* String.prototype.trim on the titles in use.
Trim(s) == IF s = " API " THEN "API" ELSE s

\* The schema's cast of a title: only projectSchema declares `trim: true`.
CastTitle(R, title) == IF R = "projects" THEN Trim(title) ELSE title

ContentBodies == [title : Opt(Titles), published : Opt(BOOLEAN)]

Route(method, R, tail) == method \o " /" \o R \o tail

FindById(R, id) == {d \in content[R] : d.id = id}

\* .sort({ createdAt: -1 }): newest first, documents of one instant in the
\* store's natural order, here that of insertion.
SortByCreatedAtDesc(S) ==
    LET RECURSIVE Order(_)
        Order(T) == IF T = {} THEN <<>>
                    ELSE LET first == CHOOSE d \in T : \A e \in T :
                                         \/ d.createdAt > e.createdAt
                                         \/ d.createdAt = e.createdAt /\ d.id <= e.id
                         IN  <<first>> \o Order(T \ {first})
    IN  Order(S)

\* A find without the published filter.
FindAny(R) == content[R]

\* Model.find({ published: true })
FindPublished(R) == {d \in content[R] : d.published = TRUE}

\* Every content route behind the default gate.
RequiredRoleDefault(method, tail) == "Editor"

\* The role each content route configures the gate with.
RequiredRole(method, tail) ==
    IF method = "DELETE" THEN "Administrator" ELSE "Editor"

GatedContentRoutes == {<<"GET", "/all">>, <<"POST", "">>, <<"PUT", "/:id">>, <<"DELETE", "/:id">>}

\* A content request the gate answers itself.
ContentRejected(method, tail, R, token) ==
    Rejected(Route(method, R, tail), RequiredRole(method, tail), token)

\* GET /api/{R} -> controller.getPublic
getPublic(R) ==
    /\ resp' = Reply(Route("GET", R, ""), NoToken, 200, "getPublic",
                     [kind |-> "list", items |-> SortByCreatedAtDesc(FindPublished(R))])
    /\ UNCHANGED <<now, users, content, singletons, tokens, nextId, pending>>

\* GET /api/{R}/all -> controller.getAllAdmin
getAllAdmin(token, R) ==
    /\ Passes(RequiredRole("GET", "/all"), token)
    /\ resp' = Reply(Route("GET", R, "/all"), token, 200, "getAllAdmin",
                     [kind |-> "list", items |-> SortByCreatedAtDesc(content[R])])
    /\ UNCHANGED <<now, users, content, singletons, tokens, nextId, pending>>

\* new Model(req.body): the casts and the defaults of the schema.
NewDoc(R, id, body) ==
    [id |-> id,
     title |-> CastTitle(R, body.title[1]),
     published |-> IF body.published = Absent THEN FALSE ELSE body.published[1],
     createdAt |-> now,
     updatedAt |-> now]

\* POST /api/{R} -> controller.create
create(token, R, body) ==
    /\ Passes(RequiredRole("POST", ""), token)
    /\ IF ~Truthy(body.title)
       THEN /\ resp' = Message(Route("POST", R, ""), token, 400, "create", "validation failed")
            /\ UNCHANGED <<content, nextId>>
       ELSE /\ nextId <= Cardinality(users) + MaxDocs
            /\ content' = [content EXCEPT ![R] = @ \cup {NewDoc(R, nextId, body)}]
            /\ nextId' = nextId + 1
            /\ resp' = Reply(Route("POST", R, ""), token, 201, "create",
                             [kind |-> "doc", doc |-> NewDoc(R, nextId, body)])
    /\ UNCHANGED <<now, users, singletons, tokens, pending>>

\* An update that replaces the document by the body: fields the body does
\* not carry fall back to the schema's defaults.
ReplacedDoc(R, d, body) ==
    [id |-> d.id,
     title |-> IF body.title = Absent THEN "" ELSE CastTitle(R, body.title[1]),
     published |-> IF body.published = Absent THEN FALSE ELSE body.published[1],
     createdAt |-> d.createdAt,
     updatedAt |-> now]

\* findByIdAndUpdate(id, req.body, { new: true }) on a stored document: the
\* body's fields are cast and $set, the timestamps plugin sets updatedAt.
UpdatedDoc(R, d, body) ==
    [id |-> d.id,
     title |-> IF body.title = Absent THEN d.title ELSE CastTitle(R, body.title[1]),
     published |-> IF body.published = Absent THEN d.published ELSE body.published[1],
     createdAt |-> d.createdAt,
     updatedAt |-> now]

\* PUT /api/{R}/:id -> controller.update
update(token, R, id, body) ==
    /\ Passes(RequiredRole("PUT", "/:id"), token)
    /\ LET found == FindById(R, id)
           d == CHOOSE x \in found : TRUE
       IN  IF id = BadId
           THEN /\ resp' = Message(Route("PUT", R, "/:id"), token, 400, "update", "Cast to ObjectId failed")
                /\ UNCHANGED content
           ELSE IF found = {}
           THEN /\ resp' = Message(Route("PUT", R, "/:id"), token, 404, "update", "Item not found")
                /\ UNCHANGED content
           ELSE /\ resp' = Reply(Route("PUT", R, "/:id"), token, 200, "update",
                                 [kind |-> "doc", doc |-> UpdatedDoc(R, d, body)])
                /\ content' = [content EXCEPT ![R] = (@ \ {d}) \cup {UpdatedDoc(R, d, body)}]
    /\ UNCHANGED <<now, users, singletons, tokens, nextId, pending>>

\* DELETE /api/{R}/:id -> controller.delete
delete(token, R, id) ==
    /\ Passes(RequiredRole("DELETE", "/:id"), token)
    /\ LET found == FindById(R, id)
       IN  IF id = BadId
           THEN /\ resp' = Message(Route("DELETE", R, "/:id"), token, 500, "delete", "Cast to ObjectId failed")
                /\ UNCHANGED content
           ELSE IF found = {}
           THEN /\ resp' = Message(Route("DELETE", R, "/:id"), token, 404, "delete", "Item not found")
                /\ UNCHANGED content
           ELSE /\ content' = [content EXCEPT ![R] = @ \ found]
                /\ resp' = Message(Route("DELETE", R, "/:id"), token, 200, "delete", "Item deleted successfully")
    /\ UNCHANGED <<now, users, singletons, tokens, nextId, pending>>

\* The clock moves on by half a token lifetime.
Tick(horizon) ==
    /\ now + (EightHours \div 2) <= horizon
    /\ now' = now + (EightHours \div 2)
    /\ UNCHANGED <<users, content, singletons, tokens, nextId, pending, resp>>

----------------------------------------------------------------------------
(* The content specification: the CRUD routes of the four content          *)
(* collections behind the gate, started from a store that holds the seeded *)
(* administrator and an editor and no content yet (seedDatabase writes     *)
(* nothing to a store that already holds users).                           *)

Editor ==
    [id |-> 2, name |-> "Munir Ahmad", email |-> "ed@x.io",
     passwordHash |-> BcryptHash("pw2", 1), role |-> "Editor", status |-> "Active"]

\* The ids requests name: those the store can have generated for documents.
DocIds == (Cardinality({SeedAdmin, Editor}) + 1)..(Cardinality({SeedAdmin, Editor}) + MaxDocs)

\* The router of the run: each defineCrudRoutes call closes over its own
\* model, so a run follows the requests to one of the four.
Routed == DOMAIN content

InitContent ==
    /\ now = 0
    /\ users = {SeedAdmin, Editor}
    /\ \E R0 \in Resources : content = [R \in {R0} |-> {}]
    /\ singletons = <<>>
    /\ tokens = {}
    /\ nextId = 3
    /\ pending = {}
    /\ resp = NoResponse

NextContent ==
    \/ Tick(MaxDocTime)
    \/ \E u \in users : Login(u.email, Some(u.passwordHash.pw))
    \/ \E m \in GatedContentRoutes, R \in Routed, t \in Presentable :
          ContentRejected(m[1], m[2], R, t)
    \/ \E R \in Routed : getPublic(R)
    \/ \E t \in Presentable, R \in Routed : getAllAdmin(t, R)
    \/ \E t \in Presentable, R \in Routed, b \in ContentBodies : create(t, R, b)
    \/ \E t \in Presentable, R \in Routed, i \in DocIds \cup {BadId}, b \in ContentBodies :
          update(t, R, i, b)
    \/ \E t \in Presentable, R \in Routed, i \in DocIds \cup {BadId} : delete(t, R, i)

SpecContent == InitContent /\ [][NextContent]_vars

----------------------------------------------------------------------------
(* The gate specification: logins, the clock running past the lifetime of  *)
(* the tokens, and requests on the gated routes of a collection that holds *)
(* nothing (every handler answers without writing).                        *)

\* Bodies the create handler refuses: the required text is missing.
UntitledBodies == {b \in ContentBodies : b.title = Absent}

NextAuth ==
    \/ Tick(MaxTime)
    \/ \E u \in users : Login(u.email, Some(u.passwordHash.pw))
    \/ \E m \in GatedContentRoutes, R \in Routed, t \in Presentable :
          ContentRejected(m[1], m[2], R, t)
    \/ \E t \in Presentable, R \in Routed : getAllAdmin(t, R)
    \/ \E t \in Presentable, R \in Routed, b \in UntitledBodies : create(t, R, b)
    \/ \E t \in Presentable, R \in Routed, i \in DocIds, b \in UntitledBodies :
          update(t, R, i, b)
    \/ \E t \in Presentable, R \in Routed, i \in DocIds : delete(t, R, i)

SpecAuth == InitContent /\ [][NextAuth]_vars

----------------------------------------------------------------------------
(* Singleton documents (personalInfoSchema, skillsSchema): the marker field *)
(* `singleton` under a unique index, and the schema's own fields, of which  *)
(* `name` stands here.                                                      *)

SingletonResources == {"personal-info", "skills"}

Markers == {"main", "other"}
Values == {"v1", "v2"}

SingletonBodies == [singleton : Opt(Markers), name : Opt(Values)]

\* The router of the run, as for the content collections.
RoutedSingleton == DOMAIN singletons

\* Model.findOne({ singleton: 'main' })
FindMain(R) == {d \in singletons[R] : d.singleton = "main"}

\* The unique index on singleton: would `marker` on document `id` collide?
MarkerIndexCollides(R, id, marker) ==
    \E d \in singletons[R] : d.id # id /\ d.singleton = marker

\* GET /api/personal-info, GET /api/skills -> controller.getSingleton
getSingleton(R) ==
    /\ resp' = Reply(Route("GET", R, ""), NoToken, 200, "getSingleton",
                     IF FindMain(R) = {} THEN [kind |-> "empty"]
                     ELSE [kind |-> "doc", doc |-> CHOOSE d \in FindMain(R) : TRUE])
    /\ UNCHANGED <<now, users, content, singletons, tokens, nextId, pending>>

\* The body $set on a stored document.
SetFields(d, body) ==
    [id |-> d.id,
     singleton |-> IF body.singleton = Absent THEN d.singleton ELSE body.singleton[1],
     name |-> IF body.name = Absent THEN d.name ELSE body.name]

\* The document an upsert inserts: the filter's equality, then the body.
UpsertedDoc(id, body) ==
    SetFields([id |-> id, singleton |-> "main", name |-> Absent], body)

\* The update half of findOneAndUpdate on the document the filter matched.
UpdateMatched(route, R, token, d, body) ==
    IF MarkerIndexCollides(R, d.id, SetFields(d, body).singleton)
    THEN /\ resp' = Message(route, token, 400, "updateSingleton", "E11000 duplicate key error")
         /\ UNCHANGED singletons
    ELSE /\ resp' = Reply(route, token, 200, "updateSingleton",
                          [kind |-> "doc", doc |-> SetFields(d, body)])
         /\ singletons' = [singletons EXCEPT ![R] = (@ \ {d}) \cup {SetFields(d, body)}]

\* PUT /api/personal-info, PUT /api/skills -> controller.updateSingleton, up
\* to the store's lookup of the filter: a match is updated in place, no
\* match leaves the insert to come.
updateSingletonFind(token, R, body) ==
    /\ Passes("Editor", token)
    /\ IF FindMain(R) # {}
       THEN /\ UpdateMatched(Route("PUT", R, ""), R, token, CHOOSE d \in FindMain(R) : TRUE, body)
            /\ UNCHANGED <<pending, nextId>>
       ELSE /\ Cardinality(pending) < MaxPending
            /\ pending' = pending \cup {[route |-> Route("PUT", R, ""), resource |-> R,
                                         token |-> token, body |-> body]}
            /\ UNCHANGED <<singletons, nextId, resp>>
    /\ UNCHANGED <<now, users, content, tokens>>

\* The insert half of the upsert.  When the unique index refuses it, a store
\* that retries upserts runs the update on the document now matched, unless
\* the update writes the filter's field; a store that does not retry, or an
\* update that writes the marker, hands the duplicate-key error to the
\* handler's catch.
updateSingletonInsert(req) ==
    /\ req \in pending
    /\ req.route = Route("PUT", req.resource, "")
    /\ pending' = pending \ {req}
    /\ LET R == req.resource
           doc == UpsertedDoc(nextId, req.body)
       IN  IF ~MarkerIndexCollides(R, doc.id, doc.singleton)
           THEN /\ resp' = Reply(req.route, req.token, 200, "updateSingleton",
                                 [kind |-> "doc", doc |-> doc])
                /\ singletons' = [singletons EXCEPT ![R] = @ \cup {doc}]
                /\ nextId' = nextId + 1
           ELSE \/ /\ resp' = Message(req.route, req.token, 400, "updateSingleton",
                                      "E11000 duplicate key error")
                   /\ UNCHANGED <<singletons, nextId>>
                \/ /\ req.body.singleton = Absent
                   /\ FindMain(R) # {}
                   /\ UpdateMatched(req.route, R, req.token, CHOOSE d \in FindMain(R) : TRUE,
                                    req.body)
                   /\ UNCHANGED nextId
    /\ UNCHANGED <<now, users, content, tokens>>

\* A singleton PUT the gate answers itself.
SingletonRejected(R, token) == Rejected(Route("PUT", R, ""), "Editor", token)

\* The document seedDatabase creates in a singleton collection: the marker's
\* default, and the seeded values.
SeedSingleton == [id |-> 3, singleton |-> "main", name |-> Some("v1")]

\* The store as the server finds it: the singleton collection as seeded, or
\* empty (seedDatabase returns before writing when users are already there).
InitSingleton ==
    /\ now = 0
    /\ users = {SeedAdmin, Editor}
    /\ content = <<>>
    /\ \E R0 \in SingletonResources, S \in {{}, {SeedSingleton}} :
          /\ singletons = [R \in {R0} |-> S]
          /\ nextId = 3 + Cardinality(S)
    /\ tokens = {}
    /\ pending = {}
    /\ resp = NoResponse

NextSingleton ==
    \/ \E u \in users : Login(u.email, Some(u.passwordHash.pw))
    \/ \E R \in RoutedSingleton, t \in Presentable : SingletonRejected(R, t)
    \/ \E R \in RoutedSingleton : getSingleton(R)
    \/ \E t \in Presentable, R \in RoutedSingleton, b \in SingletonBodies :
          updateSingletonFind(t, R, b)
    \/ \E r \in pending : updateSingletonInsert(r)

SpecSingleton == InitSingleton /\ [][NextSingleton]_vars

----------------------------------------------------------------------------
(* Store failures: a store call that rejects for a reason of the store's   *)
(* own (the connection is lost), and what each handler's catch answers.    *)

\* The message of the error the rejected store call carries.
StoreFailure == "connect ECONNREFUSED 127.0.0.1:27017"

SectionIds == {"resume", "unknown-key"}

\* Every route of the API with the role its gate is configured with ("none"
\* for a route without a gate) and the handler behind it.
Endpoints ==
    {[route |-> Route("GET", R, ""), role |-> "none", by |-> "getPublic"] : R \in Resources}
    \cup {[route |-> Route(m[1], R, m[2]), role |-> RequiredRole(m[1], m[2]),
           by |-> CASE m[1] = "GET" -> "getAllAdmin" [] m[1] = "POST" -> "create"
                    [] m[1] = "PUT" -> "update" [] m[1] = "DELETE" -> "delete"] :
             m \in GatedContentRoutes, R \in Resources}
    \cup {[route |-> Route("GET", R, ""), role |-> "none", by |-> "getSingleton"] :
             R \in SingletonResources}
    \cup {[route |-> Route("PUT", R, ""), role |-> "Editor", by |-> "updateSingleton"] :
             R \in SingletonResources}
    \cup {[route |-> "GET /sections/:sectionId", role |-> "none", by |-> "sections.get"],
          [route |-> "PUT /sections/:sectionId", role |-> "Editor", by |-> "sections.put"],
          [route |-> "GET /users", role |-> "Administrator", by |-> "getAllAdmin"],
          [route |-> "POST /users", role |-> "Administrator", by |-> "users.post"],
          [route |-> "PUT /users/:id", role |-> "Administrator", by |-> "users.put"],
          [route |-> "DELETE /users/:id", role |-> "Administrator", by |-> "delete"],
          [route |-> "POST /auth/login", role |-> "none", by |-> "login"]}

\* The status each handler's catch clause answers with.
CatchStatus(by) ==
    IF by \in {"getPublic", "getAllAdmin", "delete", "getSingleton", "sections.get", "login"}
    THEN 500 ELSE 400

\* The message each handler's catch clause answers with.
CatchMessage(by, errMessage) == IF by = "login" THEN "Server error" ELSE errMessage

\* A request whose handler runs and whose store call rejects: the catch
\* clause answers, nothing is written.
StoreFails(e, token) ==
    /\ IF e.role = "none" THEN token = NoToken ELSE Passes(e.role, token)
    /\ resp' = Message(e.route, token, CatchStatus(e.by), e.by, CatchMessage(e.by, StoreFailure))
    /\ UNCHANGED <<now, users, content, singletons, tokens, nextId, pending>>

\* A request the gate of the endpoint answers itself.
EndpointRejected(e, token) ==
    /\ e.role # "none"
    /\ Rejected(e.route, e.role, token)

InitOutage ==
    /\ now = 0
    /\ users = {SeedAdmin, Editor}
    /\ content = [R \in Resources |-> {}]
    /\ singletons = [R \in SingletonResources |-> {}]
    /\ tokens = {}
    /\ nextId = 3
    /\ pending = {}
    /\ resp = NoResponse

NextOutage ==
    \/ \E u \in users : Login(u.email, Some(u.passwordHash.pw))
    \/ \E e \in Endpoints, t \in Presentable : EndpointRejected(e, t)
    \/ \E e \in Endpoints, t \in Presentable : StoreFails(e, t)

SpecOutage == InitOutage /\ [][NextOutage]_vars

----------------------------------------------------------------------------
(* Seeding at process start (seedDatabase): the emptiness check on users,  *)
(* then one create call per collection, each awaited before the next.  A   *)
(* running seedDatabase is a record in `pending` holding the process and   *)
(* its position; a process can be killed at any position.                  *)

MaxStarts == 2      \* processes started against the store at one time

\* The create calls in the order seedDatabase awaits them.
SeedOrder == <<"users", "personal-info", "skills", "experience", "projects",
               "expertise", "logs", "sections">>

\* The number of documents each create call of seedDatabase is given.
SeedSize == [R \in Resources \cup {"sections"} |->
                CASE R = "experience" -> 3 [] R = "projects" -> 1
                  [] R = "expertise" -> 3 [] R = "logs" -> 2 [] R = "sections" -> 3]

SeededSectionIds == <<"resume", "contact", "recruiter-toolkit">>

\* The k-th document of the create call on collection R.
SeedDoc(R, id, k) ==
    IF R = "sections"
    THEN [id |-> id, sectionId |-> SeededSectionIds[k], title |-> Some("seeded"),
          description |-> Some("seeded")]
    ELSE [id |-> id, title |-> "seeded", published |-> (R = "projects"),
          createdAt |-> now, updatedAt |-> now]

Seeding == {q \in pending : q.route = "seedDatabase"}

\* node server.js: the connection opens and seedDatabase is called.
Start(p) ==
    /\ \A q \in Seeding : q.pid # p
    /\ pending' = pending \cup {[route |-> "seedDatabase", pid |-> p, step |-> 0]}
    /\ UNCHANGED <<now, users, content, singletons, tokens, nextId, resp>>

\* The process is killed.
Kill(q) ==
    /\ q \in Seeding
    /\ pending' = pending \ {q}
    /\ UNCHANGED <<now, users, content, singletons, tokens, nextId, resp>>

\* Would the create call on collection R be refused by a unique index?
SeedCollides(R) ==
    CASE R = "users" -> EmailIndexCollides(nextId, SeedEmail)
      [] R \in SingletonResources -> MarkerIndexCollides(R, nextId, "main")
      [] R = "sections" ->
            \E d \in content[R], k \in 1..3 : d.sectionId = SeededSectionIds[k]
      [] OTHER -> FALSE

\* One awaited call of seedDatabase: the count, or the next create.  A
\* duplicate-key error ends the function in its catch, as does any other.
SeedStep(q) ==
    /\ q \in Seeding
    /\ IF q.step = 0
       THEN /\ pending' = IF users # {} THEN pending \ {q}
                          ELSE (pending \ {q}) \cup {[q EXCEPT !.step = 1]}
            /\ UNCHANGED <<users, content, singletons, nextId>>
       ELSE LET R == SeedOrder[q.step]
            IN  IF SeedCollides(R)
                THEN /\ pending' = pending \ {q}
                     /\ UNCHANGED <<users, content, singletons, nextId>>
                ELSE /\ pending' = IF q.step = Len(SeedOrder) THEN pending \ {q}
                                   ELSE (pending \ {q}) \cup {[q EXCEPT !.step = @ + 1]}
                     /\ IF R = "users"
                        THEN /\ users' = users \cup
                                   {NewUser(nextId, "Munir Ahmad", SeedEmail,
                                            hashPassword("admin"), "Administrator", "Active")}
                             /\ nextId' = nextId + 1
                             /\ UNCHANGED <<content, singletons>>
                        ELSE IF R \in SingletonResources
                        THEN /\ singletons' = [singletons EXCEPT ![R] = @ \cup
                                   {[id |-> nextId, singleton |-> "main", name |-> Some("v1")]}]
                             /\ nextId' = nextId + 1
                             /\ UNCHANGED <<users, content>>
                        ELSE /\ content' = [content EXCEPT ![R] = @ \cup
                                   {SeedDoc(R, nextId + k - 1, k) : k \in 1..SeedSize[R]}]
                             /\ nextId' = nextId + SeedSize[R]
                             /\ UNCHANGED <<users, singletons>>
    /\ UNCHANGED <<now, tokens, resp>>

\* Singleton bodies that carry values only.
ValueBodies == {b \in SingletonBodies : b.singleton = Absent /\ b.name = Some("v2")}

\* The store before the first start: nothing in any collection.
InitSeed ==
    /\ now = 0
    /\ users = {}
    /\ content = [R \in Resources \cup {"sections"} |-> {}]
    /\ singletons = [R \in SingletonResources |-> {}]
    /\ tokens = {}
    /\ nextId = 1
    /\ pending = {}
    /\ resp = NoResponse

NextSeed ==
    \/ \E p \in 1..MaxStarts : Start(p)
    \/ \E q \in pending : Kill(q)
    \/ \E q \in pending : SeedStep(q)
    \/ \E u \in users : Login(u.email, Some(u.passwordHash.pw))
    \/ \E t \in Presentable, R \in SingletonResources, b \in ValueBodies :
          updateSingletonFind(t, R, b)
    \/ \E r \in pending \ Seeding : updateSingletonInsert(r)

SpecSeed == InitSeed /\ [][NextSeed]_vars

----------------------------------------------------------------------------
(* /api/sections: the SingleSection collection, kept in `content` under    *)
(* "sections", one document per sectionId (unique index).  The route of an *)
(* exchange carries the sectionId the request named.                       *)

\* Bodies of a section PUT: the description, with or without a title.
SectionBodies == [title : Opt({"My Resume"}), description : {Some("Download my CV.")}]

\* SingleSection.findOne({ sectionId })
SectionFindOne(s) == {d \in content["sections"] : d.sectionId = s}

\* A read that answers null for no document.
ItemOrNull(found) ==
    IF found = {} THEN [kind |-> "null"]
    ELSE [kind |-> "doc", doc |-> CHOOSE d \in found : TRUE]

\* res.json(item || {})
ItemOrEmpty(found) ==
    IF found = {} THEN [kind |-> "empty"]
    ELSE [kind |-> "doc", doc |-> CHOOSE d \in found : TRUE]

\* GET /api/sections/:sectionId
sectionGet(s) ==
    /\ resp' = Reply(Route("GET", "sections", "/" \o s), NoToken, 200, "sections.get",
                     ItemOrEmpty(SectionFindOne(s)))
    /\ UNCHANGED <<now, users, content, singletons, tokens, nextId, pending>>

\* The update { title, description } on a stored section.  A field the body
\* does not carry is undefined in the update: the library drops it (the
\* stored value stays) or hands it to the store as null (the stored value
\* is cleared), depending on its version; `drops` is which.
SectionSet(d, body, drops) ==
    [id |-> d.id, sectionId |-> d.sectionId,
     title |-> IF body.title = Absent /\ drops THEN d.title ELSE body.title,
     description |-> IF body.description = Absent /\ drops THEN d.description
                     ELSE body.description]

\* The update half of findOneAndUpdate on the section the filter matched.
SectionUpdateMatched(route, token, d, body) ==
    \E drops \in BOOLEAN :
        /\ resp' = Reply(route, token, 200, "sections.put",
                         [kind |-> "doc", doc |-> SectionSet(d, body, drops)])
        /\ content' = [content EXCEPT !["sections"] =
                          (@ \ {d}) \cup {SectionSet(d, body, drops)}]

\* PUT /api/sections/:sectionId up to the store's lookup of the filter: a
\* match is updated in place, no match leaves the insert to come.
sectionPutFind(token, s, body) ==
    /\ Passes("Editor", token)
    /\ IF SectionFindOne(s) # {}
       THEN /\ SectionUpdateMatched(Route("PUT", "sections", "/" \o s), token,
                                    CHOOSE d \in SectionFindOne(s) : TRUE, body)
            /\ UNCHANGED <<pending, nextId>>
       ELSE /\ Cardinality(pending) < MaxPending
            /\ pending' = pending \cup {[route |-> Route("PUT", "sections", "/" \o s),
                                         resource |-> "sections", section |-> s,
                                         token |-> token, body |-> body]}
            /\ UNCHANGED <<content, nextId, resp>>
    /\ UNCHANGED <<now, users, singletons, tokens>>

\* The insert half of the upsert: the filter's sectionId, then the body.  When
\* the unique index refuses it (another request inserted the section first),
\* a store that retries upserts updates the section now matched, another
\* hands the duplicate-key error to the handler's catch.
sectionPutInsert(req) ==
    /\ req \in pending
    /\ req.resource = "sections"
    /\ pending' = pending \ {req}
    /\ LET doc == [id |-> nextId, sectionId |-> req.section, title |-> req.body.title,
                   description |-> req.body.description]
       IN  IF SectionFindOne(req.section) = {}
           THEN /\ resp' = Reply(req.route, req.token, 200, "sections.put",
                                 [kind |-> "doc", doc |-> doc])
                /\ content' = [content EXCEPT !["sections"] = @ \cup {doc}]
                /\ nextId' = nextId + 1
           ELSE \/ /\ resp' = Message(req.route, req.token, 400, "sections.put",
                                      "E11000 duplicate key error")
                   /\ UNCHANGED <<content, nextId>>
                \/ /\ SectionUpdateMatched(req.route, req.token,
                                           CHOOSE d \in SectionFindOne(req.section) : TRUE,
                                           req.body)
                   /\ UNCHANGED nextId
    /\ UNCHANGED <<now, users, singletons, tokens>>

\* A section PUT the gate answers itself.
SectionRejected(s, token) == Rejected(Route("PUT", "sections", "/" \o s), "Editor", token)

\* The singleton and the section routes on a store that holds users and no
\* singleton or section document yet.
InitSections ==
    /\ now = 0
    /\ users = {SeedAdmin, Editor}
    /\ content = [R \in {"sections"} |-> {}]
    /\ \E R0 \in SingletonResources : singletons = [R \in {R0} |-> {}]
    /\ tokens = {}
    /\ nextId = 3
    /\ pending = {}
    /\ resp = NoResponse

NextSections ==
    \/ \E u \in users : Login(u.email, Some(u.passwordHash.pw))
    \/ \E s \in SectionIds, t \in Presentable : SectionRejected(s, t)
    \/ \E s \in SectionIds : sectionGet(s)
    \/ \E t \in Presentable, s \in SectionIds, b \in SectionBodies : sectionPutFind(t, s, b)
    \/ \E r \in {q \in pending : q.resource = "sections"} : sectionPutInsert(r)
    \/ \E R \in RoutedSingleton : getSingleton(R)
    \/ \E t \in Presentable, R \in RoutedSingleton, b \in ValueBodies :
          updateSingletonFind(t, R, b)
    \/ \E r \in {q \in pending : q.resource # "sections"} : updateSingletonInsert(r)

SpecSections == InitSections /\ [][NextSections]_vars

----------------------------------------------------------------------------
(* The gate while the users behind the tokens change: logins, the clock,   *)
(* the /api/users routes that set a role or a status or delete a user, and *)
(* the gated routes of a content collection.                               *)

\* Bodies of PUT /api/users/:id that set a role or a status.
RevokeBodies ==
    {UserPutBody(Absent, Some(r), Absent, Absent) : r \in Roles}
    \cup {UserPutBody(Absent, Absent, Some(st), Absent) : st \in Statuses}

NextRevoke ==
    \/ Tick(MaxTime)
    \/ \E u \in users : Login(u.email, Some(u.passwordHash.pw))
    \/ \E route \in UserRoutes, t \in Presentable : UsersRejected(route, t)
    \/ \E t \in Presentable : UsersGetAll(t)
    \/ \E t \in Presentable, i \in Ids, b \in RevokeBodies : UsersPut(t, i, b)
    \/ \E t \in Presentable, i \in Ids : UsersDelete(t, i)
    \/ \E m \in GatedContentRoutes, R \in Routed, t \in Presentable :
          ContentRejected(m[1], m[2], R, t)
    \/ \E t \in Presentable, R \in Routed : getAllAdmin(t, R)
    \/ \E t \in Presentable, R \in Routed, i \in DocIds : delete(t, R, i)

SpecRevoke == InitContent /\ [][NextRevoke]_vars

----------------------------------------------------------------------------
(* Claims about login and the user routes. *)

\* The password a stored hash was made from.
CorrectPassword(u, p) == p # Absent /\ p[1] = u.passwordHash.pw

NoTokenIssued == resp'.body.kind # "login" /\ tokens' = tokens

\* C3: a login with a stored user's email and correct password is answered 200
\* with a token whose id and role claims are that user's when the user is
\* Active, and 401 without a token when the user is Inactive; a wrong password
\* or an unknown email is answered 401 without a token.
C3_LoginStep(e, p) ==
    /\ \A u \in users :
          u.email = e /\ CorrectPassword(u, p) =>
             IF u.status = "Active"
             THEN /\ resp'.status = 200
                  /\ resp'.body.kind = "login"
                  /\ resp'.body.token.id = u.id
                  /\ resp'.body.token.role = u.role
                  /\ jwtVerify(resp'.body.token, JWT_SECRET)
             ELSE resp'.status = 401 /\ NoTokenIssued
    /\ \A u \in users :
          u.email = e /\ p # Absent /\ ~CorrectPassword(u, p) =>
             resp'.status = 401 /\ NoTokenIssued
    /\ (\A u \in users : u.email # Lowercase(e)) => resp'.status = 401 /\ NoTokenIssued

C3_Login ==
    [][resp'.route = "POST /auth/login" =>
          \A e \in Emails, p \in Opt(Passwords) : Login(e, p) => C3_LoginStep(e, p)]_vars

\* C3 witness: the last response is a successful login of a user created
\* through POST /api/users, with that user's id and role in the token.
C3_Witness ==
    /\ resp.route = "POST /auth/login"
    /\ resp.status = 200
    /\ resp.body.token.id # SeedAdmin.id
    /\ \E u \in users : u.id = resp.body.token.id /\ u.role = resp.body.token.role

\* A response body carries no passwordHash field.
BodyHidesHash(body) ==
    CASE body.kind = "list" -> \A d \in body.items : "passwordHash" \notin DOMAIN d
      [] body.kind = "doc" -> "passwordHash" \notin DOMAIN body.doc
      [] OTHER -> TRUE

\* C4: no response of any route carries a user's passwordHash.
C4_HashNeverReturned == BodyHidesHash(resp.body)

\* C5: no two stored users have the same email compared case-insensitively ...
EmailsUnique ==
    \A u1 \in users : \A u2 \in users :
        u1 # u2 => Lowercase(u1.email) # Lowercase(u2.email)

EmailTaken(email) == \E u \in users : Lowercase(u.email) = Lowercase(email)

\* ... and a POST /api/users whose email already exists is answered 400 and
\* adds no user, at whichever of its two store calls it meets the email.
C5_PostStep ==
    /\ \A t \in tokens, b \in UserPostBodies :
          UsersPostFind(t, b) /\ Truthy(b.name) /\ EmailTaken(b.email[1]) =>
             /\ resp' = Message("POST /users", t, 400, "users.post", "Email already exists")
             /\ users' = users
             /\ pending' = pending
    /\ \A r \in pending :
          UsersPostSave(r) /\ EmailTaken(r.body.email[1]) =>
             /\ resp'.route = "POST /users"
             /\ resp'.status = 400
             /\ users' = users

C5_EmailUnique == []EmailsUnique /\ [][C5_PostStep]_vars

\* C5 witness: a POST that passed the lookup was refused by the unique index
\* when it saved, another user having taken the email in between.
C5_Witness ==
    /\ resp.route = "POST /users"
    /\ resp.status = 400
    /\ resp.body.message = "E11000 duplicate key error"
    /\ Cardinality(users) = 2

HashOf(us, id) == (CHOOSE u \in us : u.id = id).passwordHash

PasswordSupplied(b) == b.password # Absent /\ b.password[1] # ""

\* C7 as stated: a PUT on an existing user with no password or an empty one
\* leaves the hash as it was; with a non-empty one the hash is different
\* afterwards and the password that verified before no longer verifies.
C7_StatedStep(i, b) ==
    UserFindById(i) # {} =>
       /\ UserFindById(i)' # {}
       /\ IF ~PasswordSupplied(b)
          THEN HashOf(users', i) = HashOf(users, i)
          ELSE /\ HashOf(users', i) # HashOf(users, i)
               /\ \A p \in Passwords :
                     verifyPassword(p, HashOf(users, i)) => ~verifyPassword(p, HashOf(users', i))

C7_AsStated ==
    [][resp'.route = "PUT /users/:id" =>
          \A i \in Ids, b \in CredPutBodies :
             UsersPut(resp'.token, i, b) => C7_StatedStep(i, b)]_vars

\* C7 amended: with no password or an empty one the hash is unchanged; with a
\* non-empty one, a request answered 200 leaves a different hash that the new
\* password verifies against and that a password that verified before no
\* longer verifies against unless it is the new password itself; a request
\* that is refused leaves the hash unchanged.
C7_AmendedStep(i, b) ==
    UserFindById(i) # {} =>
       /\ UserFindById(i)' # {}
       /\ IF ~PasswordSupplied(b) \/ resp'.status # 200
          THEN HashOf(users', i) = HashOf(users, i)
          ELSE /\ HashOf(users', i) # HashOf(users, i)
               /\ verifyPassword(b.password[1], HashOf(users', i))
               /\ \A p \in Passwords :
                     verifyPassword(p, HashOf(users, i)) /\ p # b.password[1]
                        => ~verifyPassword(p, HashOf(users', i))

C7_PasswordUpdate ==
    [][resp'.route = "PUT /users/:id" =>
          \A i \in Ids, b \in CredPutBodies :
             UsersPut(resp'.token, i, b) => C7_AmendedStep(i, b)]_vars

\* C7 witness: the user created with password "pw2" now carries a hash of
\* "admin", and the last response is the 200 of a PUT on that user.
C7_Witness ==
    /\ resp.route = "PUT /users/:id"
    /\ resp.status = 200
    /\ resp.body.doc.id # SeedAdmin.id
    /\ \E u \in users : u.id = resp.body.doc.id /\ u.passwordHash.pw = "admin"

----------------------------------------------------------------------------
(* Claims about the content routes. *)

ValidEditorTokens == {t \in tokens : jwtVerify(t, JWT_SECRET) /\ t.role # "Administrator"}

\* C1: a POST /api/{R} without a bearer token is answered 401 by the gate and
\* creates no record; a DELETE /api/{R}/:id with a valid token whose role is
\* not Administrator is answered 403 by the gate and the record stays; the
\* controller handler runs in neither case.
C1_Step ==
    \A R \in Routed :
       /\ resp'.route = Route("POST", R, "") =>
             \A b \in ContentBodies :
                ContentRejected("POST", "", R, NoToken) \/ create(NoToken, R, b) =>
                   /\ resp'.status = 401
                   /\ resp'.by = "authMiddleware"
                   /\ content' = content
       /\ resp'.route = Route("DELETE", R, "/:id") =>
             \A t \in ValidEditorTokens, i \in DocIds :
                ContentRejected("DELETE", "/:id", R, t) \/ delete(t, R, i) =>
                   /\ resp'.status = 403
                   /\ resp'.by = "authMiddleware"
                   /\ content' = content

\* ... and every exchange on these routes with such a token ended that way.
C1_Exchange ==
    \A R \in Routed :
       /\ resp.route = Route("POST", R, "") /\ resp.token = NoToken
             => resp.status = 401 /\ resp.by = "authMiddleware"
       /\ resp.route = Route("DELETE", R, "/:id") /\ resp.token \in ValidEditorTokens
             => resp.status = 403 /\ resp.by = "authMiddleware"

C1_GateShortCircuits == []C1_Exchange /\ [][C1_Step]_vars

\* C1 witness: an editor's DELETE was answered 403 and the collection still
\* holds a document.
C1_Witness ==
    \E R \in Routed :
       /\ resp.route = Route("DELETE", R, "/:id")
       /\ resp.token \in ValidEditorTokens
       /\ resp.status = 403
       /\ content[R] # {}

Range(seq) == {seq[k] : k \in 1..Len(seq)}

\* C2: the public list of R is exactly the stored records of R whose published
\* flag is true, each once ...
C2_Exchange ==
    \A R \in Routed :
       resp.route = Route("GET", R, "") =>
          /\ resp.status = 200
          /\ Range(resp.body.items) = {d \in content[R] : d.published = TRUE}
          /\ Len(resp.body.items) = Cardinality(Range(resp.body.items))

\* ... and a record created without a published field is stored unpublished.
C2_Step ==
    \A R \in Routed :
       resp'.route = Route("POST", R, "") =>
          \A b \in ContentBodies :
             create(resp'.token, R, b) /\ b.published = Absent =>
                \A d \in content'[R] \ content[R] : d.published = FALSE

C2_PublicListsPublished == []C2_Exchange /\ [][C2_Step]_vars

\* C2 witness: a public list of one record, out of a collection that also
\* holds an unpublished one.
C2_Witness ==
    \E R \in Routed :
       /\ resp.route = Route("GET", R, "")
       /\ Len(resp.body.items) = 1
       /\ \E d \in content[R] : d.published = FALSE

\* C9 as stated: a PUT on an existing record is answered 200 with the record
\* after the update, in which every field the body carries has the value
\* carried and every other field the value it had, and no other record is
\* changed; a PUT on an id no record has is answered 404 and changes nothing.
C9_StatedStep(R, i, b) ==
    LET before == FindById(R, i)
        d == CHOOSE x \in before : TRUE
        after == FindById(R, i)'
        e == CHOOSE x \in after : TRUE
    IN  IF before # {}
        THEN /\ resp'.status = 200
             /\ after # {}
             /\ resp'.body.doc = e
             /\ e.title = (IF b.title = Absent THEN d.title ELSE b.title[1])
             /\ e.published = (IF b.published = Absent THEN d.published ELSE b.published[1])
             /\ e.createdAt = d.createdAt
             /\ e.updatedAt = d.updatedAt
             /\ content'[R] \ after = content[R] \ before
        ELSE resp'.status = 404 /\ content' = content

C9_AsStated ==
    [][\A R \in Routed :
          resp'.route = Route("PUT", R, "/:id") =>
             \A i \in DocIds \cup {BadId}, b \in ContentBodies :
                update(resp'.token, R, i, b) => C9_StatedStep(R, i, b)]_vars

\* C9 amended: on an existing record, 200 with the record after the update,
\* in which every field the body carries has the value carried as the schema
\* casts it (a project's title trimmed), updatedAt is the time of the
\* update, every other field has the value it had, and no other record is
\* changed; on a well-formed id no record has, 404 and nothing changes; on a
\* malformed id, 400 and nothing changes.
C9_AmendedStep(R, i, b) ==
    LET before == FindById(R, i)
        d == CHOOSE x \in before : TRUE
        after == FindById(R, i)'
        e == CHOOSE x \in after : TRUE
    IN  IF before # {}
        THEN /\ resp'.status = 200
             /\ after # {}
             /\ resp'.body.doc = e
             /\ e.title = (IF b.title = Absent THEN d.title
                           ELSE IF R = "projects" THEN Trim(b.title[1]) ELSE b.title[1])
             /\ e.published = (IF b.published = Absent THEN d.published ELSE b.published[1])
             /\ e.createdAt = d.createdAt
             /\ e.updatedAt = now
             /\ content'[R] \ after = content[R] \ before
        ELSE /\ resp'.status = (IF i = BadId THEN 400 ELSE 404)
             /\ content' = content

C9_PartialUpdate ==
    [][\A R \in Routed :
          resp'.route = Route("PUT", R, "/:id") =>
             \A i \in DocIds \cup {BadId}, b \in ContentBodies :
                update(resp'.token, R, i, b) => C9_AmendedStep(R, i, b)]_vars

\* C9 witness: the last exchange is a PUT answered 200 with a record whose
\* title is no longer the one it was created with, in a collection of two.
C9_Witness ==
    \E R \in Routed :
       /\ resp.route = Route("PUT", R, "/:id")
       /\ resp.status = 200
       /\ resp.body.doc \in content[R]
       /\ resp.body.doc.updatedAt > resp.body.doc.createdAt
       /\ Cardinality(content[R]) = 2

----------------------------------------------------------------------------
(* Claims about the gate over time. *)

\* The handler, or the gate, answering a request on a gated content route.
GatedStep(method, tail, R, t) ==
    \/ ContentRejected(method, tail, R, t)
    \/ method = "GET" /\ getAllAdmin(t, R)
    \/ method = "POST" /\ \E b \in ContentBodies : create(t, R, b)
    \/ method = "PUT" /\ \E i \in DocIds, b \in ContentBodies : update(t, R, i, b)
    \/ method = "DELETE" /\ \E i \in DocIds : delete(t, R, i)

InvalidTokenAnswer(route, t) == Message(route, t, 400, "authMiddleware", "Invalid token.")

\* C8 as stated: a token a login issued at time t passes the gate of any
\* gated route (the handler runs) at every time before t + 8h and is
\* answered 'Invalid token.' by the gate at every time after; a malformed or
\* wrongly signed token is answered that way at any time.
C8_StatedStep(m, R, t) ==
    /\ t \in tokens /\ now < t.iat + EightHours => resp'.by # "authMiddleware"
    /\ t \in tokens /\ now > t.iat + EightHours
          => resp' = InvalidTokenAnswer(Route(m[1], R, m[2]), t)
    /\ t \in {Garbage, Forged} => resp' = InvalidTokenAnswer(Route(m[1], R, m[2]), t)

C8_AsStated ==
    [][\A m \in GatedContentRoutes, R \in Routed :
          resp'.route = Route(m[1], R, m[2]) /\ GatedStep(m[1], m[2], R, resp'.token)
             => C8_StatedStep(m, R, resp'.token)]_vars

\* C8 amended: before t + 8h the token passes the gate's verification on any
\* gated route, and the handler runs unless the route requires Administrator
\* and the token's role is another, which the gate answers 403; from t + 8h
\* on the gate answers 'Invalid token.' and the handler does not run; a
\* malformed or wrongly signed token is answered that way at any time.
C8_AmendedStep(m, R, t) ==
    /\ t \in tokens /\ now < t.iat + EightHours =>
          IF RequiredRole(m[1], m[2]) = "Administrator" /\ t.role # "Administrator"
          THEN resp'.status = 403 /\ resp'.by = "authMiddleware"
          ELSE resp'.by # "authMiddleware"
    /\ t \in tokens /\ now >= t.iat + EightHours
          => resp' = InvalidTokenAnswer(Route(m[1], R, m[2]), t)
    /\ t \in {Garbage, Forged} => resp' = InvalidTokenAnswer(Route(m[1], R, m[2]), t)

C8_TokenLifetime ==
    [][\A m \in GatedContentRoutes, R \in Routed :
          resp'.route = Route(m[1], R, m[2]) /\ GatedStep(m[1], m[2], R, resp'.token)
             => C8_AmendedStep(m, R, resp'.token)]_vars

\* C8 witness: the gate answered 'Invalid token.' to a token a login issued
\* eight hours or more before.
C8_Witness ==
    /\ resp.token \in tokens
    /\ resp.token.iat + EightHours <= now
    /\ resp.by = "authMiddleware"
    /\ resp.status = 400

----------------------------------------------------------------------------
(* Claims about the singleton documents. *)

\* C6: a singleton collection never holds more than one document.
C6_AtMostOne == \A R \in RoutedSingleton : Cardinality(singletons[R]) <= 1

\* C10: every singleton PUT that passes the gate is answered 200 with the
\* resulting record.
C10_UpsertSucceeds ==
    resp.by = "updateSingleton" => resp.status = 200 /\ resp.body.kind = "doc"

----------------------------------------------------------------------------
(* Claims about store failures. *)

\* C11: whenever a handler's store call fails for a reason of the store's
\* own, the response has status 500 and its message is the failure's message.
C11_FailureSurfaces ==
    [][\A e \in Endpoints :
          resp'.route = e.route /\ StoreFails(e, resp'.token)
             => resp'.status = 500 /\ resp'.body.message = StoreFailure]_vars

----------------------------------------------------------------------------
(* Claims about seeding. *)

\* Exactly one copy of the seed set: one Administrator, one document in each
\* singleton collection, and each create call's documents in its collection.
HoldsSeedSet ==
    /\ Cardinality(users) = 1
    /\ \A u \in users : u.role = "Administrator" /\ u.email = SeedEmail
    /\ \A R \in SingletonResources : Cardinality(singletons[R]) = 1
    /\ \A R \in Resources \cup {"sections"} : Cardinality(content[R]) = SeedSize[R]

\* C12: a start that finds a user leaves the store unchanged, and whenever
\* a start has run to its end with no other start under way, the store that
\* was empty at first holds exactly one copy of the seed set.
C12_SeedIdempotent ==
    [][\A q \in Seeding :
          SeedStep(q) =>
             /\ q.step = 0 /\ users # {}
                   => UNCHANGED <<users, content, singletons>>
             /\ Seeding' = {} => HoldsSeedSet']_vars

----------------------------------------------------------------------------
(* Claims about reads of what was never written. *)

EmptyObject == [kind |-> "empty"]

\* A GET of a singleton whose collection holds nothing, or of a section no
\* document carries, is answered 200 with an empty object and writes nothing.
C13_Step ==
    /\ \A R \in RoutedSingleton :
          resp'.route = Route("GET", R, "") /\ getSingleton(R) /\ singletons[R] = {}
             => /\ resp'.status = 200 /\ resp'.body = EmptyObject
                /\ UNCHANGED <<users, content, singletons, nextId, pending>>
    /\ \A s \in SectionIds :
          resp'.route = Route("GET", "sections", "/" \o s) /\ sectionGet(s)
             /\ SectionFindOne(s) = {}
             => /\ resp'.status = 200 /\ resp'.body = EmptyObject
                /\ UNCHANGED <<users, content, singletons, nextId, pending>>

\* While nothing is written, the last answer of such a GET is the empty object.
C13_Exchange ==
    /\ \A R \in RoutedSingleton :
          resp.route = Route("GET", R, "") /\ singletons[R] = {}
             => resp.status = 200 /\ resp.body = EmptyObject
    /\ \A s \in SectionIds :
          resp.route = Route("GET", "sections", "/" \o s) /\ SectionFindOne(s) = {}
             => resp.status = 200 /\ resp.body = EmptyObject

\* C13: a GET on a singleton resource or on /api/sections/:sectionId for
\* which no record has been written yet is answered 200 with an empty
\* object, never 404, and creates no record, so that every GET before the
\* first PUT is answered that way.
C13_EmptyRead == []C13_Exchange /\ [][C13_Step]_vars

\* C13 witness: the section "unknown-key" was read and answered with the
\* empty object in a store where another section has been written and the
\* singleton has not.
C13_Witness ==
    /\ resp = Reply(Route("GET", "sections", "/unknown-key"), NoToken, 200, "sections.get",
                    EmptyObject)
    /\ SectionFindOne("resume") # {}
    /\ \A R \in RoutedSingleton : singletons[R] = {}

----------------------------------------------------------------------------
(* Claims about the gate and the user store. *)

\* No step that leaves the clock alone, whatever it does to the users,
\* changes the gate's outcome for any token and required role.
C14_Frame ==
    now' = now =>
        \A t \in Presentable, role \in Roles :
            authMiddleware(role, t)' = authMiddleware(role, t)

\* A request on an /api/users route, answered by the gate or by the handler.
UsersStep(t) ==
    \/ \E route \in UserRoutes : UsersRejected(route, t)
    \/ UsersGetAll(t)
    \/ \E i \in Ids, b \in RevokeBodies : UsersPut(t, i, b)
    \/ \E i \in Ids : UsersDelete(t, i)

\* A request on a gated content route of this run.
RevokeContentStep(m, R, t) ==
    \/ ContentRejected(m[1], m[2], R, t)
    \/ m[1] = "GET" /\ getAllAdmin(t, R)
    \/ m[1] = "DELETE" /\ \E i \in DocIds : delete(t, R, i)

\* Within its lifetime an issued token is turned away only for the role it
\* carries: the gate answers 403 when the route requires Administrator and
\* the token's role claim is another, and lets every other request through.
LifetimeOutcome(requiredRole, t) ==
    IF requiredRole = "Administrator" /\ t.role # "Administrator"
    THEN resp'.by = "authMiddleware" /\ resp'.status = 403
    ELSE resp'.by # "authMiddleware"

C14_Step ==
    /\ resp'.route \in UserRoutes /\ UsersStep(resp'.token)
          /\ resp'.token \in tokens /\ now < resp'.token.iat + EightHours
          => LifetimeOutcome("Administrator", resp'.token)
    /\ \A m \in GatedContentRoutes, R \in Routed :
          resp'.route = Route(m[1], R, m[2]) /\ RevokeContentStep(m, R, resp'.token)
             /\ resp'.token \in tokens /\ now < resp'.token.iat + EightHours
             => LifetimeOutcome(RequiredRole(m[1], m[2]), resp'.token)

\* C14: the gate's outcome depends on the token, the time and the route's
\* required role only, never on the user store: a change of the users
\* changes no outcome, and a token a login issued passes the gate by the
\* role it was issued with for its whole eight hours, also once its user has
\* been set Inactive, moved to another role or deleted.
C14_GateIgnoresUsers == [][C14_Frame /\ C14_Step]_vars

\* C14 witness: the list of users was served to an Administrator token whose
\* user has been deleted.
C14_Witness ==
    /\ resp.route = "GET /users"
    /\ resp.by = "getAllAdmin"
    /\ resp.token \in tokens
    /\ resp.token.role = "Administrator"
    /\ UserFindById(resp.token.id) = {}

====
